---- MODULE Spec2Model ----
(***************************************************************************)
(* Model of the rust-todo record store (src/todos/todolist.rs): the        *)
(* TodoList map, the command application apply_action, the structural      *)
(* diff diff_with, the codecs of src/utils/cereal.rs, persistence, the     *)
(* encoding harness run_encoding_test and the sessions of src/main.rs.     *)
(***************************************************************************)
EXTENDS Integers, Sequences, FiniteSets, TLC

VARIABLES
    map,        \* TodoList.map of the session's store: name -> status
    before,     \* the store as it was when the last apply_action was entered
    action,     \* the ActionPayload of the last apply_action call
    response,   \* what Prompter::confirm answered during the last call
    result,     \* what the last apply_action returned
    removed,    \* what remove_todo returned inside the last call
    other,      \* the second store handed to diff_with
    diff,       \* the DiffResult of the last diff_with call
    codec,      \* the last serialize_with / deserialize_with round trip
    files,      \* the file system: path -> bytes of the files that exist
    harness,    \* what the last run_encoding_test or run_diff_test recorded
    session     \* the invocation of main: mode, position, load and save results

vars == <<map, before, action, response, result, removed, other, diff,
          codec, files, harness, session>>

----------------------------------------------------------------------------
(* Bounds and input universes *)

\* number of distinct non-empty item names the inputs are drawn from
MaxNames == 3

NamePool == <<"a", "b", "c", "d", "e", "f">>

\* item names: the empty string plus MaxNames non-empty ones
Names == {""} \cup {NamePool[i] : i \in 1..MaxNames}

\* free text handed to the debug command
DebugInputs == {"encoding", "diff", "DIFF", "Encoding", "zzz"}

\* every TodoList over Names
Stores == UNION {[S -> BOOLEAN] : S \in SUBSET Names}

----------------------------------------------------------------------------
(* HashMap<String, bool> *)

EmptyMap == [k \in {} |-> TRUE]

MapInsert(m, k, v) == [x \in (DOMAIN m) \cup {k} |-> IF x = k THEN v ELSE m[x]]

MapRemove(m, k) == [x \in (DOMAIN m) \ {k} |-> m[x]]

None == [some |-> FALSE]

Some(v) == [some |-> TRUE, value |-> v]

\* HashMap::remove_entry: the removed (key, value) pair, if any
MapRemoveEntry(m, k) == IF k \in DOMAIN m THEN Some(<<k, m[k]>>) ELSE None

len(m) == Cardinality(DOMAIN m)

is_empty(m) == DOMAIN m = {}

any_with_status(m, status) ==
    IF is_empty(m) THEN FALSE ELSE \E k \in DOMAIN m : m[k] = status

\* the orders in which HashMap::iter may visit the entries of m
Iterations(m) ==
    {s \in [1..len(m) -> DOMAIN m] : \A i, j \in 1..len(m) : s[i] = s[j] => i = j}

----------------------------------------------------------------------------
(* ActionPayload and CommandError *)

PAdd(key)             == [type |-> "Add", key |-> key]
PClear                == [type |-> "Clear"]
PEdit(existing, text) == [type |-> "Edit", existing |-> existing, new_text |-> text]
PList                 == [type |-> "List"]
PListWithStatus(kind) == [type |-> "ListWithStatus", kind |-> kind]
PRemove(key)          == [type |-> "Remove", key |-> key]
PSet(key, val)        == [type |-> "Set", key |-> key, val |-> val]
POther(input)         == [type |-> "Other", input |-> input]

ActionPayloads ==
    {PAdd(k) : k \in Names} \cup {PClear}
      \cup {PEdit(e, n) : e \in Names, n \in Names}
      \cup {PList} \cup {PListWithStatus(b) : b \in BOOLEAN}
      \cup {PRemove(k) : k \in Names}
      \cup {PSet(k, b) : k \in Names, b \in BOOLEAN}
      \cup {POther(i) : i \in DebugInputs}

CommandErrors == {"TodoAlreadyExists", "TodoNotFound", "InputInvalid"}

\* ResponseBool: Value(true), Value(false), Cancelled, Error(_)
Responses == {"ValueTrue", "ValueFalse", "Cancelled", "Error"}

\* what a call returns: the store it leaves and its Result
Outcome(m, r) == [map |-> m, result |-> r, removed |-> None]

----------------------------------------------------------------------------
(* TodoList operations *)

\* add_todo that inserts before it looks for the key
add_todo_insert_first(m, todo, status) ==
    IF todo = "" THEN Outcome(m, "InputInvalid")
    ELSE IF todo \in DOMAIN m THEN Outcome(MapInsert(m, todo, status), "TodoAlreadyExists")
    ELSE Outcome(MapInsert(m, todo, status), "Ok")

\* add_todo without the contains_key check
add_todo_no_exists_check(m, todo, status) ==
    IF todo = "" THEN Outcome(m, "InputInvalid")
    ELSE Outcome(MapInsert(m, todo, status), "Ok")

add_todo(m, todo, status) ==
    IF todo = "" THEN Outcome(m, "InputInvalid")
    ELSE IF todo \in DOMAIN m THEN Outcome(m, "TodoAlreadyExists")
    ELSE Outcome(MapInsert(m, todo, status), "Ok")

\* remove_todo that looks the entry up but leaves it in the map
remove_todo_keeps_entry(m, todo) ==
    [map |-> m, removed |-> MapRemoveEntry(m, todo)]

remove_todo(m, todo) ==
    [map |-> MapRemove(m, todo), removed |-> MapRemoveEntry(m, todo)]

clear_todos(m) == EmptyMap

\* str::to_lowercase on the debug inputs
to_lowercase(s) ==
    CASE s = "DIFF" -> "diff"
      [] s = "Encoding" -> "encoding"
      [] OTHER -> s

\* run_encoding_test takes &self and always returns Ok(()); what it writes to
\* ./data and prints is modelled by RunEncodingTest under SpecHarness
run_encoding_test(m) == Outcome(m, "Ok")

\* run_diff_test takes &self; gen_range(1..self.len()) panics on the empty
\* range 1..1, otherwise the changes go to a local clone and it returns Ok(())
run_diff_test(m) ==
    IF is_empty(m) THEN Outcome(m, "InputInvalid")
    ELSE IF len(m) = 1 THEN Outcome(m, "Panic")
    ELSE Outcome(m, "Ok")

run_debug_command(m, input) ==
    CASE to_lowercase(input) = "encoding" -> run_encoding_test(m)
      [] to_lowercase(input) = "diff" -> run_diff_test(m)
      [] OTHER -> Outcome(m, "Ok")

apply_Clear(m, resp) ==
    IF resp = "ValueTrue" THEN Outcome(clear_todos(m), "Ok") ELSE Outcome(m, "Ok")

\* Edit that reads the status with get instead of remove
apply_Edit_keeps_existing(m, existing, new_text) ==
    IF existing \in DOMAIN m
    THEN Outcome(MapInsert(m, new_text, m[existing]), "Ok")
    ELSE Outcome(m, "TodoNotFound")

\* Edit that inserts under the new name before it removes the existing one
apply_Edit_insert_first(m, existing, new_text) ==
    IF existing \in DOMAIN m
    THEN Outcome(MapRemove(MapInsert(m, new_text, m[existing]), existing), "Ok")
    ELSE Outcome(m, "TodoNotFound")

apply_Edit(m, existing, new_text) ==
    IF existing \in DOMAIN m
    THEN Outcome(MapInsert(MapRemove(m, existing), new_text, m[existing]), "Ok")
    ELSE Outcome(m, "TodoNotFound")

\* List prints the items (or that there are none) and returns Ok(())
apply_List(m) ==
    IF is_empty(m) THEN Outcome(m, "Ok") ELSE Outcome(m, "Ok")

\* ListWithStatus that retains the items it lists and drops the others
apply_ListWithStatus_retains(m, kind) ==
    Outcome([k \in {x \in DOMAIN m : m[x] = kind} |-> m[k]], "Ok")

\* ListWithStatus prints the names with that status and returns Ok(())
apply_ListWithStatus(m, kind) ==
    IF ~any_with_status(m, kind) THEN Outcome(m, "Ok") ELSE Outcome(m, "Ok")

apply_Remove(m, key) ==
    IF key = "" THEN Outcome(m, "InputInvalid")
    ELSE LET r == remove_todo(m, key) IN
         [map |-> r.map,
          result |-> IF r.removed.some THEN "Ok" ELSE "TodoNotFound",
          removed |-> r.removed]

\* Set that only updates a key that is already there
apply_Set_existing_only(m, key, val) ==
    IF key = "" THEN Outcome(m, "InputInvalid")
    ELSE IF key \in DOMAIN m THEN Outcome(MapInsert(m, key, val), "Ok")
    ELSE Outcome(m, "TodoNotFound")

apply_Set(m, key, val) ==
    IF key = "" THEN Outcome(m, "InputInvalid")
    ELSE Outcome(MapInsert(m, key, val), "Ok")

apply_action(m, a, resp) ==
    CASE a.type = "Add" -> add_todo(m, a.key, FALSE)
      [] a.type = "Clear" -> apply_Clear(m, resp)
      [] a.type = "Edit" -> apply_Edit(m, a.existing, a.new_text)
      [] a.type = "List" -> apply_List(m)
      [] a.type = "ListWithStatus" -> apply_ListWithStatus(m, a.kind)
      [] a.type = "Remove" -> apply_Remove(m, a.key)
      [] a.type = "Set" -> apply_Set(m, a.key, a.val)
      [] a.type = "Other" -> run_debug_command(m, a.input)

----------------------------------------------------------------------------
(* DiffEntry, DiffResult and diff_with *)

TodoNotFound(todo, this_has, that_has) ==
    [kind |-> "TodoNotFound", todo |-> todo, this_has |-> this_has, that_has |-> that_has]

TodoStatusMistake(todo, this_status, that_status) ==
    [kind |-> "TodoStatusMistake", todo |-> todo,
     this_status |-> this_status, that_status |-> that_status]

Same == [tag |-> "Same"]

Changes(changes) == [tag |-> "Changes", changes |-> changes]

\* the loop body without the comparison of the two statuses
DiffVisitNoStatus(acc, this_todo, this_status) ==
    LET found == MapRemoveEntry(acc.that_copy, this_todo)
    IN [this_copy |-> MapRemove(acc.this_copy, this_todo),
        that_copy |-> MapRemove(acc.that_copy, this_todo),
        changes |->
           IF found.some THEN acc.changes
           ELSE Append(acc.changes, TodoNotFound(this_todo, TRUE, FALSE))]

\* the loop body taking a key out of this_copy only when that_copy held it
DiffVisitRemovesFoundOnly(acc, this_todo, this_status) ==
    LET found == MapRemoveEntry(acc.that_copy, this_todo)
    IN [this_copy |-> IF found.some THEN MapRemove(acc.this_copy, this_todo)
                      ELSE acc.this_copy,
        that_copy |-> MapRemove(acc.that_copy, this_todo),
        changes |->
           IF found.some
           THEN IF found.value[2] # this_status
                THEN Append(acc.changes,
                            TodoStatusMistake(this_todo, this_status, found.value[2]))
                ELSE acc.changes
           ELSE Append(acc.changes, TodoNotFound(this_todo, TRUE, FALSE))]

\* the body of the loop over self.map: one (this_todo, this_status) entry
DiffVisit(acc, this_todo, this_status) ==
    LET found == MapRemoveEntry(acc.that_copy, this_todo)
        that_status == found.value[2]
    IN [this_copy |-> MapRemove(acc.this_copy, this_todo),
        that_copy |-> MapRemove(acc.that_copy, this_todo),
        changes |->
           IF found.some
           THEN IF that_status # this_status
                THEN Append(acc.changes,
                            TodoStatusMistake(this_todo, this_status, that_status))
                ELSE acc.changes
           ELSE Append(acc.changes, TodoNotFound(this_todo, TRUE, FALSE))]

\* the loop over self.map, visiting its entries in the order iter
RECURSIVE DiffThisLoop(_, _, _)
DiffThisLoop(acc, this, iter) ==
    IF iter = <<>> THEN acc
    ELSE DiffThisLoop(DiffVisit(acc, Head(iter), this[Head(iter)]), this, Tail(iter))

\* the second loop left out: keys only in that are never reported
DiffThatLoopSkipped(changes, iter) == changes

\* the second loop putting its entries in front of the list
RECURSIVE DiffThatLoopPrepends(_, _)
DiffThatLoopPrepends(changes, iter) ==
    IF iter = <<>> THEN changes
    ELSE DiffThatLoopPrepends(<<TodoNotFound(Head(iter), FALSE, TRUE)>> \o changes,
                              Tail(iter))

\* the loop over what is left of that_copy, in the order iter
RECURSIVE DiffThatLoop(_, _)
DiffThatLoop(changes, iter) ==
    IF iter = <<>> THEN changes
    ELSE DiffThatLoop(Append(changes, TodoNotFound(Head(iter), FALSE, TRUE)), Tail(iter))

\* the result once both loops have run
DiffFinish(changes) == IF changes = <<>> THEN Same ELSE Changes(changes)

\* one run of diff_with, given the iteration order of self.map
DiffAfterThis(this, that, this_iter) ==
    DiffThisLoop([this_copy |-> this, that_copy |-> that, changes |-> <<>>],
                 this, this_iter)

\* every DiffResult diff_with can return for (this, that): one per iteration
\* order of the two hash maps; a failed assert_eq! is a panic
diff_with(this, that) ==
    IF is_empty(this) /\ is_empty(that) THEN {Same}
    ELSE UNION {
           LET acc == DiffAfterThis(this, that, this_iter) IN
             IF len(acc.this_copy) # 0 THEN {[tag |-> "Panic"]}
             ELSE {DiffFinish(DiffThatLoop(acc.changes, that_iter)) :
                     that_iter \in Iterations(acc.that_copy)}
           : this_iter \in Iterations(this)}

\* the entries of a DiffResult, their order put aside
EntrySet(d) ==
    IF d.tag = "Changes" THEN {d.changes[i] : i \in 1..Len(d.changes)} ELSE {}

----------------------------------------------------------------------------
(* Result, EncodingType and the codecs of Cereal *)

Ok(v) == [ok |-> TRUE, value |-> v]

Err(e) == [ok |-> FALSE, error |-> e]

\* EncodingType::all(), in its order
all == <<"Bson", "Cbor", "FlexBuffer", "Json", "MsgPack">>

Encodings == {all[i] : i \in 1..Len(all)}

\* strum's Display of an EncodingType: the name of the variant
Display(ty) ==
    CASE ty = "Json" -> "Json"
      [] ty = "Cbor" -> "Cbor"
      [] ty = "Bson" -> "Bson"
      [] ty = "MsgPack" -> "MsgPack"
      [] ty = "FlexBuffer" -> "FlexBuffer"

get_file_ext(ty) ==
    CASE ty = "Json" -> "json"
      [] ty = "Cbor" -> "cbor"
      [] ty = "Bson" -> "bson"
      [] ty = "MsgPack" -> "msgpack"
      [] ty = "FlexBuffer" -> "flex"

DEFAULT_ENCODING == "MsgPack"

\* the position of a name in the lexicographic order of strings
SortedNames == <<"">> \o NamePool

NameRank(name) == CHOOSE i \in 1..Len(SortedNames) : SortedNames[i] = name

\* a Vec<u8> is modelled as the sequence of the items the encoder wrote
Tok(t, s, n) == [t |-> t, s |-> s, n |-> n]

BoolText(b) == IF b THEN "true" ELSE "false"

\* the entries of the map, key then value, in the order iter
RECURSIVE EntryToks(_, _)
EntryToks(m, iter) ==
    IF iter = <<>> THEN <<>>
    ELSE <<Tok("str", Head(iter), 0), Tok("bool", BoolText(m[Head(iter)]), 0)>>
           \o EntryToks(m, Tail(iter))

\* the keys of iter in ascending order (insertion sort)
RECURSIVE InsertByName(_, _)
InsertByName(k, sorted) ==
    IF sorted = <<>> THEN <<k>>
    ELSE IF NameRank(k) <= NameRank(Head(sorted)) THEN <<k>> \o sorted
    ELSE <<Head(sorted)>> \o InsertByName(k, Tail(sorted))

RECURSIVE SortByName(_)
SortByName(iter) ==
    IF iter = <<>> THEN <<>> ELSE InsertByName(Head(iter), SortByName(Tail(iter)))

\* what each format writes before and after the n entries of struct
\* TodoList { map }: JSON, CBOR and BSON name the field, MessagePack writes the
\* struct as a one-element array, FlexBuffers writes its maps last
Header(ty, n) ==
    CASE ty = "Json" -> <<Tok("{", "", 0), Tok("str", "map", 0), Tok("{", "", 0)>>
      [] ty = "Cbor" -> <<Tok("map", "", 1), Tok("str", "map", 0), Tok("map", "", n)>>
      [] ty = "Bson" -> <<Tok("doc", "", 0), Tok("elem", "map", 0), Tok("doc", "", n)>>
      [] ty = "MsgPack" -> <<Tok("array", "", 1), Tok("map", "", n)>>
      [] ty = "FlexBuffer" -> <<>>

Trailer(ty, n) ==
    CASE ty = "Json" -> <<Tok("}", "", 0), Tok("}", "", 0)>>
      [] ty = "Cbor" -> <<>>
      [] ty = "Bson" -> <<Tok("end", "", 0), Tok("end", "", 0)>>
      [] ty = "MsgPack" -> <<>>
      [] ty = "FlexBuffer" ->
            <<Tok("map", "", n), Tok("str", "map", 0), Tok("map", "", 1), Tok("root", "", 0)>>

\* the encoder of format ty on a store whose map iterates in the order iter;
\* FlexBuffers sorts the keys of a map
Encode(ty, m, iter) ==
    LET order == IF ty = "FlexBuffer" THEN SortByName(iter) ELSE iter
    IN Header(ty, len(m)) \o EntryToks(m, order) \o Trailer(ty, len(m))

\* the map built by inserting the decoded entries one after the other
RECURSIVE CollectEntries(_, _)
CollectEntries(m, toks) ==
    IF toks = <<>> THEN m
    ELSE CollectEntries(MapInsert(m, toks[1].s, toks[2].s = "true"),
                        SubSeq(toks, 3, Len(toks)))

\* the decoder of format ty: the store, or an error when the bytes are not
\* what the format's encoder writes
Decode(ty, bytes) ==
    LET fixed == Len(Header(ty, 0)) + Len(Trailer(ty, 0))
        n == (Len(bytes) - fixed) \div 2
        h == Len(Header(ty, 0))
        body == SubSeq(bytes, h + 1, h + 2 * n)
    IN IF /\ Len(bytes) >= fixed
          /\ Len(bytes) = fixed + 2 * n
          /\ SubSeq(bytes, 1, h) = Header(ty, n)
          /\ SubSeq(bytes, h + 2 * n + 1, Len(bytes)) = Trailer(ty, n)
          /\ \A i \in 1..(2 * n) :
                body[i].t = (IF i % 2 = 1 THEN "str" ELSE "bool")
       THEN Ok(CollectEntries(EmptyMap, body))
       ELSE Err([type |-> "String", origin |-> "decode", codec |-> ty])

\* the library calls; fault: the crate returns its error
serialize_json(m, iter, fault) ==
    IF fault THEN Err([type |-> "String", origin |-> "encode", codec |-> "Json"])
    ELSE Ok(Encode("Json", m, iter))

serialize_cbor(m, iter, fault) ==
    IF fault THEN Err([type |-> "String", origin |-> "encode", codec |-> "Cbor"])
    ELSE Ok(Encode("Cbor", m, iter))

serialize_msgpack(m, iter, fault) ==
    IF fault THEN Err([type |-> "String", origin |-> "encode", codec |-> "MsgPack"])
    ELSE Ok(Encode("MsgPack", m, iter))

serialize_flex(m, iter, fault) ==
    IF fault THEN Err([type |-> "String", origin |-> "encode", codec |-> "FlexBuffer"])
    ELSE Ok(Encode("FlexBuffer", m, iter))

serialize_bson(m, iter, fault) ==
    IF fault THEN Err([type |-> "String", origin |-> "encode", codec |-> "Bson"])
    ELSE Ok(Encode("Bson", m, iter))

deserialize_json(bytes) == Decode("Json", bytes)

deserialize_cbor(bytes) == Decode("Cbor", bytes)

deserialize_msgpack(bytes) == Decode("MsgPack", bytes)

deserialize_flex(bytes) == Decode("FlexBuffer", bytes)

deserialize_bson(bytes) == Decode("Bson", bytes)

serialize_with(encoding, m, iter, fault) ==
    CASE encoding = "Json" -> serialize_json(m, iter, fault)
      [] encoding = "Cbor" -> serialize_cbor(m, iter, fault)
      [] encoding = "MsgPack" -> serialize_msgpack(m, iter, fault)
      [] encoding = "FlexBuffer" -> serialize_flex(m, iter, fault)
      [] encoding = "Bson" -> serialize_bson(m, iter, fault)

\* deserialize_with that hands every format but JSON to the MessagePack decoder
deserialize_with_wrong_arm(encoding, bytes) ==
    CASE encoding = "Json" -> deserialize_json(bytes)
      [] OTHER -> deserialize_msgpack(bytes)

deserialize_with(encoding, bytes) ==
    CASE encoding = "Json" -> deserialize_json(bytes)
      [] encoding = "Cbor" -> deserialize_cbor(bytes)
      [] encoding = "MsgPack" -> deserialize_msgpack(bytes)
      [] encoding = "FlexBuffer" -> deserialize_flex(bytes)
      [] encoding = "Bson" -> deserialize_bson(bytes)

----------------------------------------------------------------------------
(* The file system, FileSystem and the persistence of a TodoList *)

\* the case folding of a file name on a file system that ignores case
FoldCase(s) ==
    CASE s = "Json" -> "json"
      [] s = "Cbor" -> "cbor"
      [] s = "Bson" -> "bson"
      [] s = "MsgPack" -> "msgpack"
      [] s = "FlexBuffer" -> "flexbuffer"
      [] OTHER -> s

\* the file a path names: the path itself, or its case folding
FileOf(fs, path) ==
    IF fs.folds THEN [i \in 1..Len(path) |-> FoldCase(path[i])] ELSE path

\* Path::exists
exists(fs, path) == FileOf(fs, path) \in DOMAIN fs.at

WriteFile(fs, path, data) ==
    [fs EXCEPT !.at = [f \in (DOMAIN fs.at) \cup {FileOf(fs, path)} |->
                          IF f = FileOf(fs, path) THEN data ELSE fs.at[f]]]

IoError(what) == [type |-> "io::Error", origin |-> what]

\* io::Error::to_string and the codecs' e.to_string(): the error becomes a String
ErrToString(e) == [type |-> "String", origin |-> e.origin]

\* FileSystem::save_bytes (std::fs::write); fault: the write fails
save_bytes(fs, file, data, fault) ==
    IF fault THEN [fs |-> fs, result |-> Err(IoError("io"))]
    ELSE [fs |-> WriteFile(fs, file, data), result |-> Ok("unit")]

\* FileSystem::load_bytes: the file is opened with write, create and read, so a
\* missing file is created empty; the result of read_to_end is dropped, so a
\* failed read leaves the buffer as it is.  fault: "none", "open" or "read"
load_bytes(fs, file, fault) ==
    IF fault = "open" THEN [fs |-> fs, result |-> Err(IoError("io"))]
    ELSE LET opened == IF exists(fs, file) THEN fs ELSE WriteFile(fs, file, <<>>)
         IN [fs |-> opened,
             result |-> Ok(IF fault = "read" THEN <<>> ELSE opened.at[FileOf(opened, file)])]

\* format!("data.{}", DEFAULT_ENCODING.get_file_ext())
SaveFileName == <<"data.", get_file_ext(DEFAULT_ENCODING)>>

\* format!("data.{}", DEFAULT_ENCODING)
LoadFileName == <<"data.", Display(DEFAULT_ENCODING)>>

\* TodoList::save_to_disk; iter: the iteration order of the map,
\* enc_fault: the codec fails, io_fault: the write fails
save_to_disk(fs, m, iter, enc_fault, io_fault) ==
    LET ser == serialize_with(DEFAULT_ENCODING, m, iter, enc_fault) IN
      IF ~ser.ok THEN [fs |-> fs, result |-> ser, path |-> SaveFileName]
      ELSE LET w == save_bytes(fs, SaveFileName, ser.value, io_fault) IN
             [fs |-> w.fs,
              result |-> IF w.result.ok THEN w.result ELSE Err(ErrToString(w.result.error)),
              path |-> SaveFileName]

\* TodoList::load_from_disk; fault: "none", "open" or "read"
load_from_disk(fs, fault) ==
    IF ~exists(fs, LoadFileName)
    THEN [fs |-> fs, path |-> LoadFileName,
          result |-> Err(ErrToString(IoError("not_found")))]
    ELSE LET r == load_bytes(fs, LoadFileName, fault) IN
           [fs |-> r.fs, path |-> LoadFileName,
            result |-> IF ~r.result.ok THEN Err(ErrToString(r.result.error))
                       ELSE deserialize_with(DEFAULT_ENCODING, r.result.value)]

LoadFaults == {"none", "open", "read"}

----------------------------------------------------------------------------
(* The encoding harness: run_encoding_test *)

\* the resolution of the clock: a Duration is a number of ticks
MaxTicks == 1
Ticks == 0..MaxTicks

\* the elapsed times Instant::elapsed returns in one run for the encode (se)
\* and the decode (de) of each codec, in a run that lasts at most k ticks
RECURSIVE TimingsWithin(_)
TimingsWithin(k) ==
    IF k = 0 THEN {[ty \in Encodings |-> [se |-> 0, de |-> 0]]}
    ELSE LET shorter == TimingsWithin(k - 1) IN
           shorter \cup {[tm EXCEPT ![ty].se = @ + 1] : tm \in shorter, ty \in Encodings}
                   \cup {[tm EXCEPT ![ty].de = @ + 1] : tm \in shorter, ty \in Encodings}

Timings == TimingsWithin(MaxTicks)

\* what fails in one run: nothing, or one step of one codec
FaultKinds == {"encode", "write", "path", "open", "read"}
NoFault == [codec |-> "None", kind |-> "none"]
Faults == {NoFault} \cup {[codec |-> ty, kind |-> k] : ty \in Encodings, k \in FaultKinds}
Hits(fault, ty, kind) == fault.codec = ty /\ fault.kind = kind

\* the iteration orders of byte_map and time_map, hash maps keyed by codec
Rotated(s, k) == [i \in 1..Len(s) |-> s[((i + k - 1) % Len(s)) + 1]]
Reversed(s) == [i \in 1..Len(s) |-> s[Len(s) + 1 - i]]
CodecOrders == {all, Reversed(all), Rotated(all, 2)}

\* one file for all the codecs
DataFileShared(ty) == <<"./data/", "codec", ".dat">>

\* format!("./data/{}.dat", ty)
DataFile(ty) == <<"./data/", Display(ty), ".dat">>

\* RunTime::from_se_time
from_se_time(d) == [se_duration |-> d, de_duration |-> 0]

\* HashMap::new() for byte_map and time_map
NoCodecs == [ty \in {} |-> 0]

\* HashMap::insert on a map keyed by codec
Put(m, ty, v) == [k \in (DOMAIN m) \cup {ty} |-> IF k = ty THEN v ELSE m[k]]

\* the run when the first loop starts
StartOfRun(fs) ==
    [fs |-> fs, byte_map |-> NoCodecs, time_map |-> NoCodecs,
     encode_errors |-> {}, write_errors |-> {}, written |-> {},
     report |-> NoCodecs]

\* the first loop with an error leaving the loop
RECURSIVE EncodeLoopStopsAtError(_, _, _, _, _, _)
EncodeLoopStopsAtError(run, m, iter, fault, tm, i) ==
    IF i > Len(all) THEN run
    ELSE LET ty == all[i]
             r == serialize_with(ty, m, iter, Hits(fault, ty, "encode"))
         IN IF r.ok
            THEN EncodeLoopStopsAtError(
                     [run EXCEPT !.time_map = Put(@, ty, from_se_time(tm[ty].se)),
                                 !.byte_map = Put(@, ty, r.value)],
                     m, iter, fault, tm, i + 1)
            ELSE [run EXCEPT !.encode_errors = @ \cup {ty}]

\* one round of the first loop: a success is put in time_map and byte_map,
\* an error is printed
EncodeOne(run, m, iter, fault, tm, ty) ==
    LET r == serialize_with(ty, m, iter, Hits(fault, ty, "encode")) IN
      IF r.ok
      THEN [run EXCEPT !.time_map = Put(@, ty, from_se_time(tm[ty].se)),
                       !.byte_map = Put(@, ty, r.value)]
      ELSE [run EXCEPT !.encode_errors = @ \cup {ty}]

\* the first loop: every codec of EncodingType::all() encodes the store
RECURSIVE EncodeLoop(_, _, _, _, _, _)
EncodeLoop(run, m, iter, fault, tm, i) ==
    IF i > Len(all) THEN run
    ELSE EncodeLoop(EncodeOne(run, m, iter, fault, tm, all[i]),
                    m, iter, fault, tm, i + 1)

\* one round of the second loop: the bytes of a codec of byte_map are written
\* to the codec's file
WriteOne(run, fault, ty) ==
    IF ty \notin DOMAIN run.byte_map THEN run
    ELSE LET w == save_bytes(run.fs, DataFile(ty), run.byte_map[ty],
                             Hits(fault, ty, "write"))
         IN [run EXCEPT !.fs = w.fs,
                        !.written = IF w.result.ok THEN @ \cup {ty} ELSE @,
                        !.write_errors = IF w.result.ok THEN @ ELSE @ \cup {ty}]

\* the second loop: the bytes of byte_map are written, each to its own file,
\* in the iteration order of byte_map
RECURSIVE WriteLoop(_, _, _)
WriteLoop(run, fault, order) ==
    IF order = <<>> THEN run
    ELSE WriteLoop(WriteOne(run, fault, Head(order)), fault, Tail(order))

\* the report on a decoded store that passes whatever the diff says
DiffReportPassesAll(d) == [kind |-> "matches", entries |-> {}]

\* the two reports on a decoded store: it matches, or it does NOT match and
\* the entries of the diff are printed
DiffReport(d) ==
    IF d = Same THEN [kind |-> "matches", entries |-> {}]
    ELSE [kind |-> "does_not_match", entries |-> EntrySet(d)]

\* the reports of the read-back loop that are about an error
ErrorReport(kind) == [kind |-> kind, entries |-> {}]

\* one round of the third loop: try_exists, load_bytes, deserialize_with,
\* time_map.entry(ty).and_modify, diff_with
ReadBack(run, m, ty, fault, tm) ==
    IF Hits(fault, ty, "path")
    THEN [run EXCEPT !.report = Put(@, ty, ErrorReport("path_error"))]
    ELSE IF ~exists(run.fs, DataFile(ty))
    THEN [run EXCEPT !.report = Put(@, ty, ErrorReport("missing"))]
    ELSE LET l == load_bytes(run.fs, DataFile(ty),
                             IF Hits(fault, ty, "open") THEN "open"
                             ELSE IF Hits(fault, ty, "read") THEN "read" ELSE "none")
         IN IF ~l.result.ok
            THEN [run EXCEPT !.fs = l.fs,
                             !.report = Put(@, ty, ErrorReport("load_error"))]
            ELSE LET de == deserialize_with(ty, l.result.value) IN
                   IF ~de.ok
                   THEN [run EXCEPT !.fs = l.fs,
                                    !.report = Put(@, ty, ErrorReport("decode_error"))]
                   ELSE [run EXCEPT
                           !.fs = l.fs,
                           !.time_map =
                               IF ty \in DOMAIN @
                               THEN [@ EXCEPT ![ty].de_duration = tm[ty].de] ELSE @,
                           !.report = Put(@, ty,
                               DiffReport(CHOOSE d \in diff_with(m, de.value) : TRUE))]

\* the third loop with a failed read-back taking the codec out of time_map
RECURSIVE ReadLoopForgetsFailed(_, _, _, _, _)
ReadLoopForgetsFailed(run, m, fault, tm, i) ==
    IF i > Len(all) THEN run
    ELSE LET r == ReadBack(run, m, all[i], fault, tm) IN
           ReadLoopForgetsFailed(
               IF r.report[all[i]].kind \in {"matches", "does_not_match"} THEN r
               ELSE [r EXCEPT !.time_map =
                        [k \in (DOMAIN @) \ {all[i]} |-> @[k]]],
               m, fault, tm, i + 1)

\* the third loop: every codec of EncodingType::all() is read back
RECURSIVE ReadLoop(_, _, _, _, _)
ReadLoop(run, m, fault, tm, i) ==
    IF i > Len(all) THEN run
    ELSE ReadLoop(ReadBack(run, m, all[i], fault, tm), m, fault, tm, i + 1)

\* the keys of a codec-keyed map in the iteration order order
RECURSIVE KeysIn(_, _)
KeysIn(m, order) ==
    IF order = <<>> THEN <<>>
    ELSE IF Head(order) \in DOMAIN m THEN <<Head(order)>> \o KeysIn(m, Tail(order))
    ELSE KeysIn(m, Tail(order))

\* sorted_by leaving the items as they were iterated
sorted_by_unsorted(items, key) == items

RECURSIVE InsertStable(_, _, _)
InsertStable(sorted, x, key) ==
    IF sorted = <<>> THEN <<x>>
    ELSE IF key[x] < key[Head(sorted)] THEN <<x>> \o sorted
    ELSE <<Head(sorted)>> \o InsertStable(Tail(sorted), x, key)

\* Itertools::sorted_by with Ord::cmp on key: a stable sort, ascending
RECURSIVE sorted_by(_, _)
sorted_by(items, key) ==
    IF items = <<>> THEN <<>>
    ELSE InsertStable(sorted_by(SubSeq(items, 1, Len(items) - 1), key),
                      items[Len(items)], key)

\* the rows of "Serialization Size Results"
SizeTable(byte_map, order) ==
    LET rows == sorted_by(KeysIn(byte_map, order),
                          [ty \in DOMAIN byte_map |-> Len(byte_map[ty])])
    IN [i \in 1..Len(rows) |-> [ty |-> rows[i], bytes |-> Len(byte_map[rows[i]])]]

\* the rows of "Serialization Time Results"
TimeTable(time_map, order) ==
    LET rows == sorted_by(KeysIn(time_map, order),
                          [ty \in DOMAIN time_map |-> time_map[ty].se_duration])
    IN [i \in 1..Len(rows) |-> [ty |-> rows[i],
                                se_duration |-> time_map[rows[i]].se_duration,
                                de_duration |-> time_map[rows[i]].de_duration]]

\* the three loops of run_encoding_test
EncodingTestLoops(m, fs, iter, fault, tm, byte_order) ==
    LET encoded == EncodeLoop(StartOfRun(fs), m, iter, fault, tm, 1)
        written == WriteLoop(encoded, fault, byte_order)
    IN ReadLoop(written, m, fault, tm, 1)

\* the end of run_encoding_test: the two tables, Ok(())
EncodingTestTables(fault, run, byte_order, time_order) ==
    [tag |-> "Done", fault |-> fault, run |-> run,
     size_table |-> SizeTable(run.byte_map, byte_order),
     time_table |-> TimeTable(run.time_map, time_order),
     result |-> "Ok"]

----------------------------------------------------------------------------
(* The command machine: a session applies payloads to its store *)

NoAction == [type |-> "None"]

NoRoundTrip == [tag |-> "None"]

\* no file exists (on a file system that tells upper from lower case)
NoFiles == [folds |-> FALSE, at |-> [p \in {} |-> <<>>]]

NoHarness == [tag |-> "None"]

NoSession == [pc |-> "none"]

Init ==
    /\ map = EmptyMap
    /\ before = EmptyMap
    /\ action = NoAction
    /\ response = "NotAsked"
    /\ result = "None"
    /\ removed = None
    /\ other = EmptyMap
    /\ diff = [tag |-> "None"]
    /\ codec = NoRoundTrip
    /\ files = NoFiles
    /\ harness = NoHarness
    /\ session = NoSession

\* one apply_action call; a panic ends the process
ApplyAction ==
    /\ result # "Panic"
    /\ \E a \in ActionPayloads :
         \E resp \in (IF a.type = "Clear" THEN Responses ELSE {"NotAsked"}) :
           LET out == apply_action(map, a, resp) IN
             /\ map' = out.map
             /\ result' = out.result
             /\ removed' = out.removed
             /\ before' = map
             /\ action' = a
             /\ response' = resp
    /\ UNCHANGED <<other, diff, codec, files, harness, session>>

Next == ApplyAction

Spec == Init /\ [][Next]_vars

----------------------------------------------------------------------------
(* The diff engine on its own: diff_with applied to any two stores *)

InitDiff ==
    /\ map \in Stores
    /\ other \in Stores
    /\ before = EmptyMap
    /\ action = NoAction
    /\ response = "NotAsked"
    /\ result = "None"
    /\ removed = None
    /\ diff = [tag |-> "None"]
    /\ codec = NoRoundTrip
    /\ files = NoFiles
    /\ harness = NoHarness
    /\ session = NoSession

\* self.diff_with(&other): both stores are borrowed immutably
DiffWith ==
    /\ diff.tag = "None"
    /\ diff' \in diff_with(map, other)
    /\ UNCHANGED <<map, before, action, response, result, removed, other,
                   codec, files, harness, session>>

NextDiff == DiffWith

SpecDiff == InitDiff /\ [][NextDiff]_vars

----------------------------------------------------------------------------
(* The codecs on their own: one encode/decode round trip of any store *)

InitCodec ==
    /\ map \in Stores
    /\ before = EmptyMap
    /\ action = NoAction
    /\ response = "NotAsked"
    /\ result = "None"
    /\ removed = None
    /\ other = EmptyMap
    /\ diff = [tag |-> "None"]
    /\ codec = NoRoundTrip
    /\ files = NoFiles
    /\ harness = NoHarness
    /\ session = NoSession

\* deserialize_with(ty, serialize_with(ty, self)) and the diff of self with
\* the store it yields; the codec crates are taken to return no error here
RoundTrip ==
    /\ codec.tag = "None"
    /\ \E i \in 1..Len(all) : \E iter \in Iterations(map) :
         LET ty == all[i]
             ser == serialize_with(ty, map, iter, FALSE)
             de == IF ser.ok THEN deserialize_with(ty, ser.value) ELSE ser
         IN /\ codec' = [tag |-> "Done", encoding |-> ty, ser |-> ser, de |-> de]
            /\ IF de.ok
               THEN other' = de.value /\ diff' \in diff_with(map, de.value)
               ELSE UNCHANGED <<other, diff>>
    /\ UNCHANGED <<map, before, action, response, result, removed,
                   files, harness, session>>

NextCodec == RoundTrip

SpecCodec == InitCodec /\ [][NextCodec]_vars

----------------------------------------------------------------------------
(* The sessions of main: invocation after invocation over the same files *)

\* the item names the commands of a session use
SessionNames == {NamePool[1], NamePool[2]}

SessionPayloads ==
    {PAdd(k) : k \in SessionNames} \cup {PClear}
      \cup {PEdit(e, n) : e \in SessionNames, n \in SessionNames}
      \cup {PList} \cup {PListWithStatus(b) : b \in BOOLEAN}
      \cup {PRemove(k) : k \in SessionNames}
      \cup {PSet(k, b) : k \in SessionNames, b \in BOOLEAN}
      \cup {POther("diff")}

NotLoaded == [ok |-> FALSE, error |-> [type |-> "None", origin |-> "none"]]

InitSession ==
    /\ map = EmptyMap
    /\ before = EmptyMap
    /\ action = NoAction
    /\ response = "NotAsked"
    /\ result = "None"
    /\ removed = None
    /\ other = EmptyMap
    /\ diff = [tag |-> "None"]
    /\ codec = NoRoundTrip
    /\ files \in {[folds |-> b, at |-> NoFiles.at] : b \in BOOLEAN}
    /\ harness = NoHarness
    /\ session = [pc |-> "none", mode |-> "none", load |-> NotLoaded,
                  load_fault |-> "none", loaded |-> FALSE,
                  saved |-> None, earlier |-> None, saves |-> 0]

\* a process starts: without arguments it is the REPL; with a command whose
\* parsing or validation fails it returns at once; the store an earlier
\* invocation saved is remembered in earlier
Start ==
    /\ session.pc \in {"none", "exited", "panicked"}
    /\ \E mode \in {"repl", "oneshot", "invalid"} :
         session' = [pc |-> IF mode = "invalid" THEN "exited" ELSE "load",
                     mode |-> mode, load |-> NotLoaded,
                     load_fault |-> "none", loaded |-> FALSE, saved |-> None,
                     saves |-> 0,
                     earlier |-> IF session.saved.some THEN session.saved
                                 ELSE session.earlier]
    /\ map' = EmptyMap /\ before' = EmptyMap /\ action' = NoAction
    /\ response' = "NotAsked" /\ result' = "None" /\ removed' = None
    /\ UNCHANGED <<other, diff, codec, files, harness>>

\* TodoList::load_from_disk at startup: the REPL expects it to succeed, the
\* one-shot mode falls back to TodoList::new()
Load ==
    /\ session.pc = "load"
    /\ \E fault \in LoadFaults :
         LET r == load_from_disk(files, fault) IN
           /\ files' = r.fs
           /\ map' = IF r.result.ok THEN r.result.value ELSE EmptyMap
           /\ session' = [session EXCEPT
                 !.load = r.result, !.load_fault = fault, !.loaded = TRUE,
                 !.pc = IF r.result.ok \/ session.mode = "oneshot"
                        THEN "run" ELSE "panicked"]
    /\ UNCHANGED <<before, action, response, result, removed, other, diff,
                   codec, harness>>

\* one apply_action: the one command of a one-shot run, or one round of the
\* REPL's menu; a panic ends the process
Command ==
    /\ session.pc = "run"
    /\ \E a \in SessionPayloads :
         \E resp \in (IF a.type = "Clear" THEN Responses ELSE {"NotAsked"}) :
           LET out == apply_action(map, a, resp) IN
             /\ map' = out.map
             /\ result' = out.result
             /\ removed' = out.removed
             /\ before' = map
             /\ action' = a
             /\ response' = resp
             /\ session' = [session EXCEPT
                   !.pc = IF out.result = "Panic" THEN "panicked"
                          ELSE IF session.mode = "oneshot" THEN "save" ELSE "run"]
    /\ UNCHANGED <<other, diff, codec, files, harness>>

\* the REPL's menu ends: Exit is chosen, or the selection is cancelled or fails
LeaveRepl ==
    /\ session.pc = "run" /\ session.mode = "repl"
    /\ session' = [session EXCEPT !.pc = "save"]
    /\ UNCHANGED <<map, before, action, response, result, removed, other, diff,
                   codec, files, harness>>

\* save_to_disk at the end of main; an error is printed and main returns
Save ==
    /\ session.pc = "save"
    /\ \E iter \in Iterations(map) : \E enc_fault, io_fault \in BOOLEAN :
         LET r == save_to_disk(files, map, iter, enc_fault, io_fault) IN
           /\ files' = r.fs
           /\ session' = [session EXCEPT
                 !.pc = "exited",
                 !.saves = @ + 1,
                 !.saved = IF r.result.ok THEN Some(map) ELSE None,
                 !.earlier = IF r.result.ok THEN None ELSE session.earlier]
    /\ UNCHANGED <<map, before, action, response, result, removed, other, diff,
                   codec, harness>>

NextSession == Start \/ Load \/ Command \/ LeaveRepl \/ Save

SpecSession == InitSession /\ [][NextSession]_vars

----------------------------------------------------------------------------
(* The encoding harness run on a store, with what an earlier run left *)

\* the stores the harness is run on
HarnessStores ==
    {EmptyMap, MapInsert(EmptyMap, NamePool[1], FALSE),
     MapInsert(MapInsert(EmptyMap, NamePool[1], FALSE), NamePool[2], TRUE)}

\* the store an earlier run of the harness was run on
EarlierStore == MapInsert(EmptyMap, NamePool[1], TRUE)

\* ./data after a run of the harness on the store m in which nothing failed
ArtifactsOf(m, iter) ==
    [f \in {DataFile(ty) : ty \in Encodings} |->
        Encode((CHOOSE ty \in Encodings : DataFile(ty) = f), m, iter)]

InitHarness ==
    /\ map \in HarnessStores
    /\ before = EmptyMap
    /\ action = NoAction
    /\ response = "NotAsked"
    /\ result = "None"
    /\ removed = None
    /\ other = EmptyMap
    /\ diff = [tag |-> "None"]
    /\ codec = NoRoundTrip
    /\ \/ files = NoFiles
       \/ \E iter \in Iterations(EarlierStore) :
            files = [NoFiles EXCEPT !.at = ArtifactsOf(EarlierStore, iter)]
    /\ harness = NoHarness
    /\ session = NoSession

\* apply_action(Other("encoding")): run_debug_command runs run_encoding_test
RunEncodingTest ==
    /\ harness = NoHarness
    /\ \E iter \in Iterations(map) : \E fault \in Faults : \E tm \in Timings :
         \E byte_order \in CodecOrders :
           LET run == EncodingTestLoops(map, files, iter, fault, tm, byte_order) IN
             /\ files' = run.fs
             /\ \E time_order \in CodecOrders :
                  harness' = EncodingTestTables(fault, run, byte_order, time_order)
             /\ result' = harness'.result
    /\ before' = map
    /\ action' = POther("encoding")
    /\ response' = "NotAsked"
    /\ removed' = None
    /\ UNCHANGED <<map, other, diff, codec, session>>

NextHarness == RunEncodingTest

SpecHarness == InitHarness /\ [][NextHarness]_vars

----------------------------------------------------------------------------
(* The rounds of the harness's loops taken codec by codec, in any order *)

\* no tick passes
NoTime == CHOOSE tm \in TimingsWithin(0) : TRUE

\* the rounds a codec goes through, in the order the three loops give them
NextRound(pc) ==
    CASE pc = "encode" -> "write"
      [] pc = "write" -> "read"
      [] pc = "read" -> "done"

InitRounds ==
    /\ map \in HarnessStores
    /\ before = EmptyMap
    /\ action = NoAction
    /\ response = "NotAsked"
    /\ result = "None"
    /\ removed = None
    /\ other = EmptyMap
    /\ diff = [tag |-> "None"]
    /\ codec = NoRoundTrip
    /\ \/ files = NoFiles
       \/ \E iter \in Iterations(EarlierStore) :
            files = [NoFiles EXCEPT !.at = ArtifactsOf(EarlierStore, iter)]
    /\ \E iter \in Iterations(map) : \E fault \in Faults :
         harness = [tag |-> "Rounds", fault |-> fault, iter |-> iter,
                    store |-> map, fs |-> files,
                    pc |-> [ty \in Encodings |-> "encode"],
                    run |-> StartOfRun(files)]
    /\ session = NoSession

\* a round of one codec has run and left the run as after
Round(ty, after) ==
    /\ harness' = [harness EXCEPT !.pc[ty] = NextRound(@), !.run = after]
    /\ files' = after.fs
    /\ UNCHANGED <<map, before, action, response, result, removed, other, diff,
                   codec, session>>

\* the encode round of one codec
EncodeRound ==
    \E ty \in Encodings :
      /\ harness.pc[ty] = "encode"
      /\ Round(ty, EncodeOne(harness.run, map, harness.iter, harness.fault, NoTime, ty))

\* the write round of one codec
WriteRound ==
    \E ty \in Encodings :
      /\ harness.pc[ty] = "write"
      /\ Round(ty, WriteOne(harness.run, harness.fault, ty))

\* the read-back round of one codec: read, decode, diff
ReadBackRound ==
    \E ty \in Encodings :
      /\ harness.pc[ty] = "read"
      /\ Round(ty, ReadBack(harness.run, map, ty, harness.fault, NoTime))

NextRounds == EncodeRound \/ WriteRound \/ ReadBackRound

SpecRounds == InitRounds /\ [][NextRounds]_vars

----------------------------------------------------------------------------
(* ActionType::try_create_payload: from an action and its arguments to a payload *)

ActionTypes == {"Add", "Clear", "Edit", "List", "ListType", "Remove", "Set", "Other"}

\* ActionType::get_arg_count
get_arg_count(ty) ==
    CASE ty = "Add" -> 1
      [] ty = "Clear" -> 0
      [] ty = "Edit" -> 2
      [] ty = "List" -> 0
      [] ty = "ListType" -> 1
      [] ty = "Remove" -> 1
      [] ty = "Set" -> 2
      [] ty = "Other" -> 1

\* ActionPayload::get_action_type
get_action_type(p) ==
    CASE p.type = "ListWithStatus" -> "ListType"
      [] OTHER -> p.type

\* the most arguments a command line is given
MaxArgs == 2

\* the texts given as arguments
ArgStrings == {"", NamePool[1], "true", "no", "maybe"}

ArgLists == UNION {[1..n -> ArgStrings] : n \in 0..MaxArgs}

\* string_to_bool on the argument texts
string_to_bool(s) ==
    CASE s = "true" -> Some(TRUE)
      [] s = "no" -> Some(FALSE)
      [] OTHER -> None

InputError == Err("InvalidArgument")

\* the match of try_create_payload on the action, args.first() and args.last()
CreatePayloadOf(ty, args) ==
    LET first == IF args = <<>> THEN None ELSE Some(args[1])
        last == IF args = <<>> THEN None ELSE Some(args[Len(args)])
    IN CASE ty = "Add" ->
              IF ~first.some THEN InputError
              ELSE IF first.value = "" THEN InputError ELSE Ok(PAdd(first.value))
         [] ty = "Clear" -> Ok(PClear)
         [] ty = "Edit" ->
              IF ~first.some \/ ~last.some THEN InputError
              ELSE IF first.value = "" \/ last.value = "" THEN InputError
              ELSE Ok(PEdit(first.value, last.value))
         [] ty = "List" -> Ok(PList)
         [] ty = "ListType" ->
              IF ~first.some THEN InputError
              ELSE IF string_to_bool(first.value).some
                   THEN Ok(PListWithStatus(string_to_bool(first.value).value))
                   ELSE InputError
         [] ty = "Remove" ->
              IF ~first.some THEN InputError
              ELSE IF first.value = "" THEN InputError ELSE Ok(PRemove(first.value))
         [] ty = "Set" ->
              IF ~first.some \/ ~last.some THEN InputError
              ELSE IF string_to_bool(last.value).some
                   THEN Ok(PSet(first.value, string_to_bool(last.value).value))
                   ELSE InputError
         [] ty = "Other" ->
              \* args.join(" ") of the one argument
              Ok(POther(IF args = <<>> THEN "" ELSE args[1]))

\* try_create_payload without the check of the argument count
try_create_payload_any_count(ty, args) == CreatePayloadOf(ty, args)

try_create_payload(ty, args) ==
    IF get_arg_count(ty) # Len(args) THEN InputError
    ELSE CreatePayloadOf(ty, args)

InitPayload ==
    /\ map = EmptyMap
    /\ before = EmptyMap
    /\ action = NoAction
    /\ response = "NotAsked"
    /\ result = "None"
    /\ removed = None
    /\ other = EmptyMap
    /\ diff = [tag |-> "None"]
    /\ codec = NoRoundTrip
    /\ files = NoFiles
    /\ harness = NoHarness
    /\ \E ty \in ActionTypes : \E args \in ArgLists :
         session = [pc |-> "validate", creator |-> ty, args |-> args]

\* main and repl: action.try_create_payload(&args)
CreatePayload ==
    /\ session.pc = "validate"
    /\ LET r == try_create_payload(session.creator, session.args) IN
         /\ session' = [session EXCEPT !.pc = IF r.ok THEN "validated" ELSE "rejected"]
         /\ action' = IF r.ok THEN r.value ELSE NoAction
    /\ UNCHANGED <<map, before, response, result, removed, other, diff, codec,
                   files, harness>>

NextPayload == CreatePayload

SpecPayload == InitPayload /\ [][NextPayload]_vars

----------------------------------------------------------------------------
(* The diff self-test: run_diff_test with its random changes *)

\* format!("Here is a random todo I added. {}", rng.gen::<usize>())
RandomTodo(n) == IF n = 1 THEN "Here is a random todo I added. 1"
                 ELSE "Here is a random todo I added. 2"
RandomTodos == {RandomTodo(1), RandomTodo(2)}

\* the stores the self-test is run on
DiffTestStores ==
    UNION {[S -> BOOLEAN] : S \in SUBSET {NamePool[1], NamePool[2], RandomTodo(1)}}

Change(kind, todo) == [kind |-> kind, todo |-> todo]

\* the clone before the first change
StartOfChanges(m) == [other |-> m, log |-> <<>>, panicked |-> FALSE]

\* arm 0: rng.gen_range(0..other.len()) and the nth item get the other status
FlipArm(cur) ==
    IF is_empty(cur.other) THEN {[cur EXCEPT !.panicked = TRUE]}
    ELSE {[cur EXCEPT !.other = MapInsert(@, k, ~cur.other[k]),
                      !.log = Append(@, Change("flip", k))] : k \in DOMAIN cur.other}

\* arm 1: add_todo of a random name with a random status, its Result dropped
AddArm(cur) ==
    {[cur EXCEPT !.other = add_todo(@, n, s).map,
                 !.log = Append(@, Change("add", n))] : n \in RandomTodos, s \in BOOLEAN}

\* arm 2: rng.gen_range(0..other.len()) and the nth item is removed
RemoveArm(cur) ==
    IF is_empty(cur.other) THEN {[cur EXCEPT !.panicked = TRUE]}
    ELSE {[cur EXCEPT !.other = remove_todo(@, k).map,
                      !.log = Append(@, Change("remove", k))] : k \in DOMAIN cur.other}

\* the loop of the changes with the status change left out
RECURSIVE ChangeLoopWithoutFlips(_, _)
ChangeLoopWithoutFlips(curs, n) ==
    IF n = 0 THEN curs
    ELSE ChangeLoopWithoutFlips(
             UNION {IF c.panicked THEN {c}
                    ELSE {[c EXCEPT !.log = Append(@, Change("flip", k))]
                             : k \in DOMAIN c.other} \cup AddArm(c) \cup RemoveArm(c)
                    : c \in curs},
             n - 1)

\* for i in 0..changes: one of the three arms; a panic ends the loop
RECURSIVE ChangeLoop(_, _)
ChangeLoop(curs, n) ==
    IF n = 0 THEN curs
    ELSE ChangeLoop(
             UNION {IF c.panicked THEN {c}
                    ELSE FlipArm(c) \cup AddArm(c) \cup RemoveArm(c) : c \in curs},
             n - 1)

\* every run of run_diff_test on the store m: what it returns, the modified
\* clone, the number of changes drawn, the changes made and the last diff
DiffTestRuns(m) ==
    IF is_empty(m)
    THEN {[result |-> "InputInvalid", other |-> m, changes |-> 0, log |-> <<>>,
           first |-> [tag |-> "None"], last |-> [tag |-> "None"]]}
    ELSE IF len(m) = 1
    THEN \* gen_range(1..1): the range is empty
         {[result |-> "Panic", other |-> m, changes |-> 0, log |-> <<>>,
           first |-> d, last |-> [tag |-> "None"]] : d \in diff_with(m, m)}
    ELSE UNION {
           UNION {
             IF c.panicked
             THEN {[result |-> "Panic", other |-> c.other, changes |-> k,
                    log |-> c.log, first |-> Same, last |-> [tag |-> "None"]]}
             ELSE {[result |-> "Ok", other |-> c.other, changes |-> k,
                    log |-> c.log, first |-> Same, last |-> d]
                      : d \in diff_with(m, c.other)}
             : c \in ChangeLoop({StartOfChanges(m)}, k)}
           : k \in 1..(len(m) - 1)}

InitDiffTest ==
    /\ map \in DiffTestStores
    /\ before = EmptyMap
    /\ action = NoAction
    /\ response = "NotAsked"
    /\ result = "None"
    /\ removed = None
    /\ other = EmptyMap
    /\ diff = [tag |-> "None"]
    /\ codec = NoRoundTrip
    /\ files = NoFiles
    /\ harness = NoHarness
    /\ session = NoSession

\* apply_action(Other("diff")): run_debug_command runs run_diff_test
RunDiffTest ==
    /\ harness = NoHarness
    /\ \E r \in DiffTestRuns(map) :
         /\ harness' = [tag |-> "DiffTest", changes |-> r.changes, log |-> r.log,
                        first |-> r.first]
         /\ other' = r.other
         /\ diff' = r.last
         /\ result' = r.result
    /\ before' = map
    /\ action' = POther("diff")
    /\ response' = "NotAsked"
    /\ removed' = None
    /\ UNCHANGED <<map, codec, files, session>>

NextDiffTest == RunDiffTest

SpecDiffTest == InitDiffTest /\ [][NextDiffTest]_vars

----------------------------------------------------------------------------
(* FileSystem on its own: save_bytes and load_bytes called on any path *)

\* the paths the program passes to FileSystem
FsPaths == {SaveFileName, LoadFileName, DataFile(DEFAULT_ENCODING)}

\* the byte vectors written: an empty one and the encodings of some stores
FsData ==
    {<<>>} \cup UNION {{Encode(DEFAULT_ENCODING, m, iter) : iter \in Iterations(m)} :
                           m \in {EmptyMap, EarlierStore}}

NoCall == [pc |-> "fs", op |-> "none"]

InitFiles ==
    /\ map = EmptyMap
    /\ before = EmptyMap
    /\ action = NoAction
    /\ response = "NotAsked"
    /\ result = "None"
    /\ removed = None
    /\ other = EmptyMap
    /\ diff = [tag |-> "None"]
    /\ codec = NoRoundTrip
    /\ files \in {[folds |-> b, at |-> NoFiles.at] : b \in BOOLEAN}
    /\ harness = NoHarness
    /\ session = NoCall

\* one call of FileSystem::save_bytes
SaveBytes ==
    /\ \E file \in FsPaths, data \in FsData, fault \in BOOLEAN :
         LET r == save_bytes(files, file, data, fault) IN
           /\ files' = r.fs
           /\ session' = [pc |-> "fs", op |-> "save_bytes", file |-> file,
                          earlier |-> files, result |-> r.result]
    /\ UNCHANGED <<map, before, action, response, result, removed, other, diff,
                   codec, harness>>

\* one call of FileSystem::load_bytes
LoadBytes ==
    /\ \E file \in FsPaths, fault \in LoadFaults :
         LET r == load_bytes(files, file, fault) IN
           /\ files' = r.fs
           /\ session' = [pc |-> "fs", op |-> "load_bytes", file |-> file,
                          earlier |-> files, result |-> r.result]
    /\ UNCHANGED <<map, before, action, response, result, removed, other, diff,
                   codec, harness>>

NextFiles == SaveBytes \/ LoadBytes

SpecFiles == InitFiles /\ [][NextFiles]_vars

----------------------------------------------------------------------------
(* Properties of the command machine (checked under Spec) *)

\* the items of m other than those named in S are exactly those of b
OthersUnchanged(b, m, S) ==
    \A k \in Names \ S :
        /\ (k \in DOMAIN m) <=> (k \in DOMAIN b)
        /\ (k \in DOMAIN b) => (m[k] = b[k])

\* C1: in every state reachable from the empty store by apply_action calls,
\* every key of the store is a non-empty string (a map holds each key once).
KeysNonEmpty == \A k \in DOMAIN map : k # ""

\* C2: when apply_action returns an error (TodoAlreadyExists, TodoNotFound or
\* InputInvalid) the store holds the same name->status pairs, and so has the
\* same length, as before the call.
ErrorLeavesStoreUnchanged ==
    (result \in CommandErrors) => (map = before /\ len(map) = len(before))

\* a call failed on a store that holds items
ErrorOnPopulatedStore ==
    /\ result = "TodoAlreadyExists"
    /\ \E k \in DOMAIN before : before[k] = TRUE
    /\ action.type = "Add" /\ before[action.key] = TRUE

\* C3: Add(name) fails with InputInvalid for the empty name, else with
\* TodoAlreadyExists when name is already a key; otherwise it succeeds, name
\* maps to false, the length has grown by one and every other item is as before.
AddContract ==
    (action.type = "Add") =>
        IF action.key = "" THEN result = "InputInvalid"
        ELSE IF action.key \in DOMAIN before THEN result = "TodoAlreadyExists"
        ELSE /\ result = "Ok"
             /\ action.key \in DOMAIN map
             /\ map[action.key] = FALSE
             /\ len(map) = len(before) + 1
             /\ OthersUnchanged(before, map, {action.key})

\* Add succeeded on a store that already held items
AddSucceeded ==
    /\ action.type = "Add" /\ result = "Ok"
    /\ len(before) >= 2
    /\ action.key \notin DOMAIN before

\* C4 as stated: Remove(name) succeeds when name is a key, removing exactly
\* that pair (remove_todo returns it); for every absent name it fails with
\* TodoNotFound.
RemoveContractAnyName ==
    (action.type = "Remove") =>
        IF action.key \in DOMAIN before
        THEN /\ result = "Ok"
             /\ removed = [some |-> TRUE, value |-> <<action.key, before[action.key]>>]
             /\ action.key \notin DOMAIN map
             /\ len(map) = len(before) - 1
             /\ OthersUnchanged(before, map, {action.key})
        ELSE result = "TodoNotFound"

\* C4 amended: the statement holds for every non-empty name; the empty name
\* is rejected with InputInvalid and the store is left as it was.
RemoveContract ==
    (action.type = "Remove") =>
        IF action.key = "" THEN result = "InputInvalid" /\ map = before
        ELSE IF action.key \in DOMAIN before
        THEN /\ result = "Ok"
             /\ removed = [some |-> TRUE, value |-> <<action.key, before[action.key]>>]
             /\ action.key \notin DOMAIN map
             /\ len(map) = len(before) - 1
             /\ OthersUnchanged(before, map, {action.key})
        ELSE result = "TodoNotFound"

\* Remove took one item out of a store that keeps others
RemoveSucceeded ==
    /\ action.type = "Remove" /\ result = "Ok"
    /\ action.key \in DOMAIN before
    /\ len(map) >= 2

\* C5: Edit(existing, new_name) with existing # new_name fails with
\* TodoNotFound when existing is absent; otherwise new_name maps to the status
\* existing had, existing is absent, whatever was stored under new_name is
\* overwritten and every other item is as before.
EditContract ==
    (action.type = "Edit" /\ action.existing # action.new_text) =>
        IF action.existing \notin DOMAIN before THEN result = "TodoNotFound"
        ELSE /\ result = "Ok"
             /\ action.new_text \in DOMAIN map
             /\ map[action.new_text] = before[action.existing]
             /\ action.existing \notin DOMAIN map
             /\ OthersUnchanged(before, map, {action.existing, action.new_text})

\* Edit overwrote an item of the other status while a third item stayed
EditOverwrote ==
    /\ action.type = "Edit" /\ result = "Ok"
    /\ action.existing # action.new_text
    /\ action.new_text \in DOMAIN before
    /\ before[action.new_text] # before[action.existing]
    /\ \E k \in DOMAIN map : k # action.new_text

\* C6: Set(name, status) with a non-empty name always succeeds, name then maps
\* to status, every other item is as before and the length grows by one
\* exactly when name was absent; with the empty name it fails with InputInvalid.
SetContract ==
    (action.type = "Set") =>
        IF action.key = "" THEN result = "InputInvalid"
        ELSE /\ result = "Ok"
             /\ action.key \in DOMAIN map
             /\ map[action.key] = action.val
             /\ OthersUnchanged(before, map, {action.key})
             /\ len(map) = len(before) + (IF action.key \in DOMAIN before THEN 0 ELSE 1)

\* Set inserted a name that was absent, next to other items
SetInserted ==
    /\ action.type = "Set" /\ result = "Ok"
    /\ action.key \notin DOMAIN before
    /\ action.val = TRUE
    /\ len(before) >= 1

\* C7: after the Clear command has been applied to any store, the store is
\* empty.
ClearEmptiesStore == (action.type = "Clear") => is_empty(map)

\* C8: the store and the result that apply_action leaves are determined by the
\* store it was given and the payload: whatever is answered outside the store
\* and the payload, the same call yields the same store and the same result.
ApplyDependsOnStoreAndPayloadOnly ==
    (action.type # "None") =>
        \A resp \in Responses :
            LET again == apply_action(before, action, resp) IN
                again.map = map /\ again.result = result

\* C22: List, ListWithStatus and Other (the debug commands 'encoding' and
\* 'diff' and any other text) leave the name->status pairs of the store
\* exactly as they were, whatever they return.
ReadOnlyCommandsKeepStore ==
    (action.type \in {"List", "ListWithStatus", "Other"})
        => /\ map = before
           /\ removed = None
           /\ len(map) = len(before)
           /\ \A b \in BOOLEAN : any_with_status(map, b) = any_with_status(before, b)

\* a ListWithStatus that lists some items of a store and not others
ListedSomeOfStore ==
    /\ action.type = "ListWithStatus" /\ result = "Ok"
    /\ \E k \in DOMAIN before : before[k] = action.kind
    /\ \E k \in DOMAIN before : before[k] # action.kind
    /\ map = before

\* C29: a successful Edit(existing, new_name) never adds an item: the length
\* is as before when new_name was absent or is existing itself, and one less
\* when new_name named another stored item; Edit(a, a) on a stored a leaves
\* the whole store as it was.
EditNeverGrowsStore ==
    (action.type = "Edit" /\ result = "Ok") =>
        /\ len(map) <= len(before)
        /\ (action.new_text \notin DOMAIN before \/ action.new_text = action.existing)
              => len(map) = len(before)
        /\ (action.new_text \in DOMAIN before /\ action.new_text # action.existing)
              => len(map) = len(before) - 1
        /\ (action.new_text = action.existing) => map = before

\* Edit onto another stored item made the store one shorter, and an Edit of an
\* item onto itself is possible on the store before
EditMerged ==
    /\ action.type = "Edit" /\ result = "Ok"
    /\ action.new_text \in DOMAIN before
    /\ action.new_text # action.existing
    /\ len(before) >= 2
    /\ len(map) = len(before) - 1
    /\ apply_Edit(before, action.existing, action.existing).map = before

----------------------------------------------------------------------------
(* Properties of the diff engine (checked under SpecDiff) *)

\* the entries of the last diff_with result
Entries == IF diff.tag = "Changes" THEN diff.changes ELSE <<>>

OnlyInThis == DOMAIN map \ DOMAIN other

OnlyInThat == DOMAIN other \ DOMAIN map

Mismatched == {k \in DOMAIN map \cap DOMAIN other : map[k] # other[k]}

\* C9: diff_with(A, B) is Same if and only if A and B hold exactly the same
\* name->status pairs (so diff_with(S, S) is Same, the empty store included).
DiffSameIffEqual ==
    (diff.tag # "None") => ((diff.tag = "Same") <=> (map = other))

\* diff_with answered Same for two populated stores
DiffSameOnPopulated == diff.tag = "Same" /\ len(map) >= 2 /\ len(other) >= 2

\* C10: diff_with(A, B) emits exactly one entry per differing name and
\* nothing else: TodoNotFound{this_has, ~that_has} per key only in A,
\* TodoNotFound{~this_has, that_has} per key only in B, TodoStatusMistake with
\* A's and B's statuses per key in both with different status.
DiffEntriesExact ==
    (diff.tag # "None") =>
        /\ diff.tag \in {"Same", "Changes"}
        /\ {Entries[i] : i \in 1..Len(Entries)} =
              {[kind |-> "TodoNotFound", todo |-> k,
                this_has |-> TRUE, that_has |-> FALSE] : k \in OnlyInThis}
              \cup {[kind |-> "TodoNotFound", todo |-> k,
                     this_has |-> FALSE, that_has |-> TRUE] : k \in OnlyInThat}
              \cup {[kind |-> "TodoStatusMistake", todo |-> k,
                     this_status |-> map[k], that_status |-> other[k]] : k \in Mismatched}
        /\ Len(Entries) =
              Cardinality(OnlyInThis) + Cardinality(OnlyInThat) + Cardinality(Mismatched)

\* a diff with all three kinds of entry and one name that agrees
DiffAllKinds ==
    /\ diff.tag = "Changes"
    /\ OnlyInThis # {} /\ OnlyInThat # {} /\ Mismatched # {}
    /\ \E k \in DOMAIN map \cap DOMAIN other : map[k] = other[k]

\* the item names of the entries, in the order diff_with returned them
RankAt(i) == NameRank(Entries[i].todo)

\* C11 as stated: the entries returned by diff_with are sorted by item name.
DiffEntriesSortedByName ==
    \A i, j \in 1..Len(Entries) : (i < j) => (RankAt(i) <= RankAt(j))

\* an entry about a key that only the other store holds
IsThatOnly(e) == e.kind = "TodoNotFound" /\ e.that_has

\* C11 amended: diff_with does not sort; the entries follow the iteration
\* order of the hash maps, those about keys of this store before those about
\* keys only the other store holds, and every iteration order yields the same
\* entries up to their order.
DiffOrderFollowsIteration ==
    (diff.tag # "None") =>
        /\ \A i, j \in 1..Len(Entries) :
              (i < j) => ~(IsThatOnly(Entries[i]) /\ ~IsThatOnly(Entries[j]))
        /\ \A d \in diff_with(map, other) :
              EntrySet(d) = EntrySet(diff) /\ d.tag = diff.tag

\* a diff whose entries are out of name order and of both origins
DiffOutOfNameOrder ==
    /\ diff.tag = "Changes"
    /\ \E i, j \in 1..Len(Entries) : i < j /\ RankAt(i) > RankAt(j)
    /\ \E i, j \in 1..Len(Entries) : IsThatOnly(Entries[i]) /\ ~IsThatOnly(Entries[j])

\* C27: the assert_eq! of diff_with never fails: no call ends in its panic,
\* and for every pair of stores a call is about to be made on, whatever the
\* iteration order, after the loop over this store's keys this_copy is empty
\* and that_copy holds exactly the entries of the other store whose key this
\* store lacks.
DiffAssertionHolds ==
    /\ diff.tag # "Panic"
    /\ (diff.tag = "None")
          => \A this_iter \in Iterations(map) :
                LET acc == DiffAfterThis(map, other, this_iter) IN
                  /\ len(acc.this_copy) = 0
                  /\ DOMAIN acc.that_copy = (DOMAIN other) \ (DOMAIN map)
                  /\ \A k \in DOMAIN acc.that_copy : acc.that_copy[k] = other[k]

\* a diff of two stores each of which holds a key the other lacks, besides a
\* key they share
DiffOfOverlappingStores ==
    /\ diff.tag = "Changes"
    /\ (DOMAIN map) \ (DOMAIN other) # {}
    /\ (DOMAIN other) \ (DOMAIN map) # {}
    /\ (DOMAIN map) \cap (DOMAIN other) # {}

----------------------------------------------------------------------------
(* Properties of the codecs (checked under SpecCodec) *)

----------------------------------------------------------------------------
(* Properties of the sessions of main (checked under SpecSession) *)

\* C13: when an invocation has saved the store and no later invocation has
\* saved since, the load of the next invocation, if nothing goes wrong in it,
\* succeeds and returns a store that diff_with finds Same as the saved one.
SavedStoreIsLoadedNext ==
    (session.loaded /\ session.earlier.some /\ session.load_fault = "none")
        => /\ session.load.ok
           /\ Same \in diff_with(session.earlier.value, session.load.value)

\* C14: the file load_from_disk reads is the file save_to_disk has written,
\* data.<ext> with <ext> the get_file_ext of the default encoding.
LoadsTheFileItSaved ==
    session.saved.some
        => /\ load_from_disk(files, "none").path = <<"data.", get_file_ext(DEFAULT_ENCODING)>>
           /\ load_from_disk(files, "none").path
                = save_to_disk(files, session.saved.value,
                               CHOOSE it \in Iterations(session.saved.value) : TRUE,
                               FALSE, FALSE).path

\* what made the load of this invocation fail
LoadFailureCause ==
    IF ~exists(files, LoadFileName) THEN "not_found"
    ELSE IF session.load_fault # "none" THEN "io" ELSE "decode"

\* C15: a failed load_from_disk returns an error that tells its cause: not
\* found for a missing file, a typed deserialization error for bytes that do
\* not decode, and an I/O error, never a deserialization error, for a failed
\* read.
LoadErrorTellsItsCause ==
    (session.loaded /\ ~session.load.ok /\ session.pc # "exited")
        => /\ session.load.error.origin = LoadFailureCause
           /\ session.load.error.origin = "decode"
                 => session.load.error.type # "String"

\* C16: a failed load is never fatal: in the REPL as in the one-shot mode the
\* process goes on, and only a command's own panic can end it.
FailedLoadIsNotFatal ==
    (session.loaded /\ ~session.load.ok)
        => session.pc \in {"run", "save", "exited"} \/ result = "Panic"

\* the invocation holds a store: the one-shot mode once its payload is
\* validated, the REPL once its load has succeeded
HoldsStore ==
    \/ session.mode = "oneshot" /\ session.loaded
    \/ session.mode = "repl" /\ session.loaded /\ session.load.ok

\* the process of the invocation has ended
Ended == session.pc \in {"exited", "panicked"}

\* C21: an invocation that holds a store has called save_to_disk exactly once
\* when it ends, on every exit path, and not before its last command; a
\* one-shot run whose command or arguments fail validation neither loads nor
\* saves.
SavedOnceAtSessionEnd ==
    /\ (Ended /\ HoldsStore) => session.saves = 1
    /\ (~Ended /\ session.pc # "none") => session.saves = 0
    /\ (Ended /\ session.mode = "invalid") => (~session.loaded /\ session.saves = 0)

----------------------------------------------------------------------------
(* Properties of the encoding harness (checked under SpecHarness) *)

Done == harness.tag = "Done"

\* the rows of a table that are about the codec ty
RowsOf(table, ty) == {i \in 1..Len(table) : table[i].ty = ty}

\* the length of what the codec ty makes of a store of n items
EncodedLen(ty, n) == Len(Header(ty, n)) + 2 * n + Len(Trailer(ty, n))

\* C17 as stated: on a store of N > 0 items the size table and the timing
\* table each hold one row for every codec of EncodingType::all(), whatever
\* failed for the codec.
EveryCodecInBothTables ==
    (Done /\ len(map) > 0)
        => \A ty \in Encodings :
              /\ Cardinality(RowsOf(harness.size_table, ty)) = 1
              /\ Cardinality(RowsOf(harness.time_table, ty)) = 1

\* C17 amended: every codec whose encode succeeded has exactly one row in each
\* table, with its encoded byte length and its measured times, whatever write,
\* read or decode failure occurs for it; a codec whose encode failed is
\* reported by an error line and has no row in either table.
EveryEncodedCodecInBothTables ==
    (Done /\ len(map) > 0)
        => \A ty \in Encodings :
              IF Hits(harness.fault, ty, "encode")
              THEN /\ RowsOf(harness.size_table, ty) = {}
                   /\ RowsOf(harness.time_table, ty) = {}
                   /\ ty \in harness.run.encode_errors
              ELSE /\ Cardinality(RowsOf(harness.size_table, ty)) = 1
                   /\ Cardinality(RowsOf(harness.time_table, ty)) = 1
                   /\ \A i \in RowsOf(harness.size_table, ty) :
                         harness.size_table[i].bytes = EncodedLen(ty, len(map))
                   /\ \A i \in RowsOf(harness.time_table, ty) :
                         /\ harness.time_table[i].se_duration \in Ticks
                         /\ harness.time_table[i].de_duration \in Ticks

\* a run on a populated store in which the decode of one codec failed and the
\* codec is in both tables all the same
DecodeFailureStillRanked ==
    /\ Done /\ len(map) > 0
    /\ \E ty \in Encodings :
         /\ harness.run.report[ty].kind = "decode_error"
         /\ RowsOf(harness.size_table, ty) # {}
         /\ RowsOf(harness.time_table, ty) # {}

\* C18: a failure in the encode, write, read or decode of one codec does not
\* stop the run: every codec is read back and reported on, every other codec
\* is encoded, written, read back, decoded and found to match, and
\* run_encoding_test returns Ok.
FailureOfOneCodecIsIsolated ==
    Done
        => /\ harness.result = "Ok" /\ result = "Ok"
           /\ DOMAIN harness.run.report = Encodings
           /\ \A ty \in Encodings \ {harness.fault.codec} :
                 /\ ty \in DOMAIN harness.run.byte_map
                 /\ ty \in harness.run.written
                 /\ exists(files, DataFile(ty))
                 /\ files.at[FileOf(files, DataFile(ty))] = harness.run.byte_map[ty]
                 /\ harness.run.report[ty].kind = "matches"

\* a run in which the first codec failed to encode and the last one passed
FirstCodecFailedOthersPassed ==
    /\ Done
    /\ Hits(harness.fault, all[1], "encode")
    /\ all[1] \in harness.run.encode_errors
    /\ harness.run.report[all[Len(all)]].kind = "matches"
    /\ len(map) > 0

\* what the read-back of the codec ty decoded in the run: the file as the
\* run left it, when it was there and could be opened
Decoded(ty) ==
    IF \/ Hits(harness.fault, ty, "path") \/ Hits(harness.fault, ty, "open")
       \/ ~exists(files, DataFile(ty))
    THEN Err([type |-> "String", origin |-> "io", codec |-> ty])
    ELSE deserialize_with(ty, IF Hits(harness.fault, ty, "read") THEN <<>>
                              ELSE files.at[FileOf(files, DataFile(ty))])

ErrorReportKinds == {"path_error", "missing", "load_error", "decode_error"}

\* C19: a codec is reported as matching exactly when diff_with(original,
\* decoded) is Same; Changes is reported as not matching, with the entries of
\* the diff, and every other outcome by one of the error reports.
MatchReportedIffDiffSame ==
    Done
        => \A ty \in Encodings :
              LET rep == harness.run.report[ty]
                  de == Decoded(ty)
              IN /\ (rep.kind = "matches")
                        <=> (de.ok /\ Same \in diff_with(map, de.value))
                 /\ (rep.kind = "does_not_match")
                        <=> (de.ok /\ Same \notin diff_with(map, de.value))
                 /\ (rep.kind = "does_not_match")
                        => /\ rep.entries # {}
                           /\ \A d \in diff_with(map, de.value) : rep.entries = EntrySet(d)
                 /\ (~de.ok) <=> (rep.kind \in ErrorReportKinds)

\* a run that reports one codec as not matching and another as matching
MismatchReported ==
    /\ Done
    /\ \E ty \in Encodings : harness.run.report[ty].kind = "does_not_match"
    /\ \E ty \in Encodings : harness.run.report[ty].kind = "matches"

\* C20: the size table lists every codec of byte_map in ascending order of
\* encoded byte length and the timing table every codec of time_map in
\* ascending order of serialize duration, each codec once.
TablesRankedAscending ==
    Done
        => /\ \A i, j \in 1..Len(harness.size_table) :
                 (i < j) => harness.size_table[i].bytes <= harness.size_table[j].bytes
           /\ \A i, j \in 1..Len(harness.time_table) :
                 (i < j) => harness.time_table[i].se_duration
                                <= harness.time_table[j].se_duration
           /\ Len(harness.size_table) = Cardinality(DOMAIN harness.run.byte_map)
           /\ Len(harness.time_table) = Cardinality(DOMAIN harness.run.time_map)
           /\ \A ty \in DOMAIN harness.run.byte_map :
                 \E i \in 1..Len(harness.size_table) :
                    /\ harness.size_table[i].ty = ty
                    /\ harness.size_table[i].bytes = Len(harness.run.byte_map[ty])
           /\ \A ty \in DOMAIN harness.run.time_map :
                 \E i \in 1..Len(harness.time_table) :
                    /\ harness.time_table[i].ty = ty
                    /\ harness.time_table[i].se_duration
                          = harness.run.time_map[ty].se_duration

\* a run whose tables rank all the codecs, by lengths and by durations that
\* are not all the same
FullRankingOfUnequalCodecs ==
    /\ Done
    /\ Len(harness.size_table) = Len(all)
    /\ Len(harness.time_table) = Len(all)
    /\ harness.size_table[1].bytes < harness.size_table[Len(all)].bytes
    /\ harness.time_table[1].se_duration < harness.time_table[Len(all)].se_duration

\* C28: a codec that the run decoded and gave a diff verdict had its bytes
\* encoded and its file written in this run, and the bytes decoded were those
\* bytes; a codec whose encode or write failed in this run gets no decode and
\* no verdict.
DecodesOwnBytesOnly ==
    Done
        => \A ty \in Encodings :
              LET kind == harness.run.report[ty].kind IN
                /\ (kind \in {"matches", "does_not_match"})
                      => /\ ty \in harness.run.written
                         /\ files.at[FileOf(files, DataFile(ty))] = harness.run.byte_map[ty]
                /\ (ty \in harness.run.encode_errors \cup harness.run.write_errors)
                      => kind \notin {"matches", "does_not_match", "decode_error"}

----------------------------------------------------------------------------
(* Properties of the rounds taken in any order (checked under SpecRounds) *)

\* the run of the three loops in the order of the program, on the files and
\* with the failure the rounds started with
SequentialRun ==
    EncodingTestLoops(harness.store, harness.fs, harness.iter, harness.fault,
                      NoTime, all)

\* C23: the files of the codecs are distinct, and in whatever order the
\* encode, write and read-back rounds of different codecs are taken, every
\* codec ends with the verdict, the bytes and the file that the run in program
\* order gives it, and the store stays as it was.
RoundsInAnyOrderGiveSameVerdicts ==
    /\ \A ty, ty2 \in Encodings :
          (ty # ty2) => FileOf(files, DataFile(ty)) # FileOf(files, DataFile(ty2))
    /\ map = harness.store
    /\ (\A ty \in Encodings : harness.pc[ty] = "done")
          => /\ harness.run.report = SequentialRun.report
             /\ harness.run.byte_map = SequentialRun.byte_map
             /\ harness.run.written = SequentialRun.written
             /\ files = SequentialRun.fs

\* all rounds are over, the last codec of all() having finished before the
\* first one was written, with a verdict of each kind among the codecs
LastCodecRanFirst ==
    /\ \A ty \in Encodings \ {all[1]} : harness.pc[ty] = "done"
    /\ harness.pc[all[1]] = "write"
    /\ harness.run.report[all[Len(all)]].kind = "matches"
    /\ \E ty \in DOMAIN harness.run.report :
          harness.run.report[ty].kind \in {"does_not_match", "decode_error"}

----------------------------------------------------------------------------
(* Properties of try_create_payload (checked under SpecPayload) *)

\* the item names a payload carries
PayloadNames(p) ==
    CASE p.type = "Add" -> {p.key}
      [] p.type = "Edit" -> {p.existing, p.new_text}
      [] p.type = "Remove" -> {p.key}
      [] p.type = "Set" -> {p.key}
      [] OTHER -> {}

\* C24 as stated: a payload is returned only for get_arg_count arguments,
\* carries no empty item name, the key of Set included, and has the action
\* that created it as its get_action_type.
PayloadsCarryNoEmptyName ==
    (session.pc = "validated")
        => /\ Len(session.args) = get_arg_count(session.creator)
           /\ "" \notin PayloadNames(action)
           /\ get_action_type(action) = session.creator

\* C24 amended: a payload is returned only for get_arg_count arguments and has
\* the action that created it as its get_action_type; the name of Add, both
\* names of Edit and the name of Remove are never empty, while the key of Set
\* is not looked at and is whatever the first argument was, empty or not.
PayloadsValidatedButSetKey ==
    (session.pc = "validated")
        => /\ Len(session.args) = get_arg_count(session.creator)
           /\ get_action_type(action) = session.creator
           /\ (action.type # "Set") => "" \notin PayloadNames(action)
           /\ (action.type = "Set") => action.key = session.args[1]

\* an Edit payload made of two arguments
EditPayloadCreated ==
    /\ session.pc = "validated"
    /\ session.creator = "Edit"
    /\ action = PEdit(session.args[1], session.args[2])

----------------------------------------------------------------------------
(* Properties of the diff self-test (checked under SpecDiffTest) *)

DiffTested == harness.tag = "DiffTest"

\* the item names the changes of the run touched, one per change
Touched == {harness.log[i].todo : i \in 1..Len(harness.log)}

\* no two changes of the run touch the same item name
TouchedOnce == Cardinality(Touched) = Len(harness.log)

\* the number of entries of the last diff of the run
DiffCount == IF diff.tag = "Changes" THEN Len(diff.changes) ELSE 0

\* C25 as stated: after the k changes the diff of the original and the copy
\* has at most k entries, and exactly k when no two changes touch the same
\* item name.
DiffCountIsChangeCount ==
    (DiffTested /\ result = "Ok")
        => /\ Len(harness.log) = harness.changes
           /\ DiffCount <= harness.changes
           /\ TouchedOnce => DiffCount = harness.changes

\* an add of the run drew the name of an item of the original store
AddedExisting ==
    \E i \in 1..Len(harness.log) :
       harness.log[i].kind = "add" /\ harness.log[i].todo \in DOMAIN map

\* C25 amended: the diff has at most k entries, and exactly k when no two
\* changes touch the same item name and no add drew a name the store already
\* holds (such an add fails and changes nothing).
DiffCountIsChangeCountButFailedAdds ==
    (DiffTested /\ result = "Ok")
        => /\ Len(harness.log) = harness.changes
           /\ DiffCount <= harness.changes
           /\ (TouchedOnce /\ ~AddedExisting) => DiffCount = harness.changes

\* a run of two changes on two names, one of them the add of a new item,
\* with two diff entries
TwoChangesCounted ==
    /\ DiffTested /\ result = "Ok"
    /\ harness.changes = 2
    /\ TouchedOnce /\ ~AddedExisting
    /\ \E i \in 1..Len(harness.log) : harness.log[i].kind = "add"
    /\ DiffCount = 2

\* C26: the 'diff' debug command returns InputInvalid for the empty store
\* only, and on every store with an item it runs to its end and returns Ok.
DiffTestRunsOnEveryStore ==
    DiffTested
        => /\ (result = "InputInvalid") <=> is_empty(map)
           /\ (~is_empty(map)) => result = "Ok"


----------------------------------------------------------------------------
(* Properties of FileSystem (checked under SpecFiles) *)

\* C30: load_bytes only reads: the files and their contents are after the
\* call what they were before it, for a path that exists and for one that does
\* not, and a path that does not exist yields an I/O error, not a byte vector.
LoadBytesOnlyReads ==
    (session.op = "load_bytes") =>
        /\ files = session.earlier
        /\ (~exists(session.earlier, session.file)) => ~session.result.ok

====
